---- MODULE Spec2Model ----
(***************************************************************************)
(* A model of simple-path-match (src/src/lib.rs): the tokenizer, the path  *)
(* normalizer, the pattern compiler, the match trie with its depth bounds, *)
(* the work-list matcher, and the PathMatch / PathMatchBuilder interface.  *)
(*                                                                         *)
(* Strings are sequences of one-character strings, so "./a" is written     *)
(* <<".", "/", "a">>.  A trie is a function from node keys to node         *)
(* records; the key of a node is the sequence of pattern components on the *)
(* way from the root, which is what the two BTreeMaps of a node encode.    *)
(***************************************************************************)
EXTENDS Integers, Sequences, FiniteSets, TLC

\* ------------------------------------------------------------------ bounds

\* Longest pattern string handed to from_pattern / add_pattern.
MaxPatternLen == 3

\* Longest path string handed to matches / matches_prefix.
MaxPathLen == 4

\* Most patterns a builder accumulates before build().
MaxPatterns == 2

\* ------------------------------------------------------- program constants

PATH_CURRENT == <<".">>

PATH_PARENT == <<".", ".">>

UNIX_SEP == "/"

WILDCARD_ANY == "*"

\* usize::MAX, for a 16-bit usize.
USIZE_MAX == 65535

\* ------------------------------------------------------------------ inputs

\* Characters of pattern strings.
PatternChars == {"a", ".", "/", "*"}

\* Characters of path strings.
PathChars == {"a", ".", "/"}

\* Separators a matcher may be constructed with.
Separators == {"/"}

RECURSIVE StringsUpTo(_, _)
StringsUpTo(chars, n) ==
    IF n = 0 THEN {<<>>}
    ELSE LET shorter == StringsUpTo(chars, n - 1)
         IN  shorter \cup {Append(s, c) : s \in shorter, c \in chars}

PatternStrings == StringsUpTo(PatternChars, MaxPatternLen)

PathStrings == StringsUpTo(PathChars, MaxPathLen)

\* ---------------------------------------------------------- PathComponent

Current == [type |-> "Current"]

DirectoryMarker == [type |-> "DirectoryMarker"]

Name(s) == [type |-> "Name", name |-> s]

Parent == [type |-> "Parent"]

RootName(s) == [type |-> "RootName", name |-> s]

\* traversal_depth with the directory marker counted as a level.
traversal_depth_marker_counts(component) ==
    IF component.type = "Current" THEN 0 ELSE 1

traversal_depth(component) ==
    IF component.type \in {"Current", "DirectoryMarker"} THEN 0 ELSE 1

\* Display for PathComponent: the text of a component.
PathComponent_fmt(component) ==
    IF component.type = "Current" THEN PATH_CURRENT
    ELSE IF component.type = "DirectoryMarker" THEN <<>>
    ELSE IF component.type = "Parent" THEN PATH_PARENT
    ELSE component.name

\* ------------------------------------------------------- PatternComponent

Literal(c) == [kind |-> "Literal", literal |-> c]

StartsEndsWith(s, e) == [kind |-> "StartsEndsWith", start |-> s, end |-> e]

\* str::starts_with
starts_with(name, prefix) ==
    /\ Len(prefix) <= Len(name)
    /\ SubSeq(name, 1, Len(prefix)) = prefix

\* str::ends_with
ends_with(name, suffix) ==
    /\ Len(suffix) <= Len(name)
    /\ SubSeq(name, Len(name) - Len(suffix) + 1, Len(name)) = suffix

StartsEndsWith_matches(m, name) ==
    starts_with(name, m.start) /\ ends_with(name, m.end)

\* -------------------------------------------------------------- tokenizer

\* str::contains for a one-character needle.
contains(s, c) == \E i \in 1..Len(s) : s[i] = c

\* str::find for a one-character needle; only used when contains(s, c).
find(s, c) == CHOOSE i \in 1..Len(s) : s[i] = c /\ \A j \in 1..(i - 1) : s[j] # c

\* str::split on a one-character separator: "" splits into one empty slice.
RECURSIVE split(_, _)
split(s, sep) ==
    IF contains(s, sep)
    THEN LET i == find(s, sep)
         IN  <<SubSeq(s, 1, i - 1)>> \o split(SubSeq(s, i + 1, Len(s)), sep)
    ELSE <<s>>

\* StringComponentIter::next, run to exhaustion: the items still to come when
\* the enumerated split stands before slice idx (1-based) with flag is_dir.
RECURSIVE StringComponentIter_next(_, _, _)
StringComponentIter_next(slices, idx, is_dir) ==
    IF idx > Len(slices)
    THEN IF is_dir THEN <<DirectoryMarker>> ELSE <<>>
    ELSE LET component == slices[idx]
         IN  IF component = <<>>
             THEN IF idx = 1
                  THEN <<RootName(component)>>
                           \o StringComponentIter_next(slices, idx + 1, FALSE)
                  ELSE StringComponentIter_next(slices, idx + 1, TRUE)
             ELSE IF component = PATH_CURRENT
             THEN <<Current>> \o StringComponentIter_next(slices, idx + 1, FALSE)
             ELSE IF component = PATH_PARENT
             THEN <<Parent>> \o StringComponentIter_next(slices, idx + 1, FALSE)
             ELSE <<Name(component)>>
                      \o StringComponentIter_next(slices, idx + 1, FALSE)

StringComponentIter(path, sep) ==
    StringComponentIter_next(split(path, sep), 1, FALSE)

\* ------------------------------------------------------------- normalizer

\* The DirectoryMarker arm without the Current it puts before a leading marker.
normalized_directory_marker_bare(result) ==
    Append(result, DirectoryMarker)

\* The DirectoryMarker arm of normalized.
normalized_directory_marker(result) ==
    IF result = <<>>
    THEN <<Current, DirectoryMarker>>
    ELSE Append(result, DirectoryMarker)

\* The Current arm keeping the component.
normalized_current_kept(result) ==
    Append(result, Current)

\* The Current arm of normalized: the component is dropped.
normalized_current(result) ==
    result

\* One turn of the loop of normalized: acc is [panicked, result].
normalized_step(acc, component) ==
    LET result == acc.result
        last == result[Len(result)]
    IN  IF acc.panicked THEN acc
        ELSE IF component.type \in {"Name", "RootName"}
        THEN [acc EXCEPT !.result = Append(result, component)]
        ELSE IF component.type = "DirectoryMarker"
        THEN [acc EXCEPT !.result = normalized_directory_marker(result)]
        ELSE IF component.type = "Parent"
        THEN IF result = <<>> \/ last.type = "Parent"
             THEN [acc EXCEPT !.result = Append(result, Parent)]
             ELSE IF last.type = "Name"
             THEN [acc EXCEPT !.result = SubSeq(result, 1, Len(result) - 1)]
             ELSE IF last.type = "RootName"
             THEN acc
             ELSE [acc EXCEPT !.panicked = TRUE]
        ELSE [acc EXCEPT !.result = normalized_current(result)]

RECURSIVE normalized_loop(_, _, _)
normalized_loop(components, i, acc) ==
    IF i > Len(components) THEN acc
    ELSE normalized_loop(components, i + 1, normalized_step(acc, components[i]))

\* [panicked |-> the panic of line 159 was hit, result |-> the components].
normalized(components) ==
    LET acc == normalized_loop(components, 1, [panicked |-> FALSE, result |-> <<>>])
    IN  IF ~acc.panicked /\ acc.result = <<>>
        THEN [acc EXCEPT !.result = <<Current>>]
        ELSE acc

\* ------------------------------------------------------- pattern compiler

NoError == [kind |-> "None"]

NoParents == [kind |-> "NoParents"]

WildcardPosition(c) == [kind |-> "WildcardPosition", component |-> c]

\* The wildcard test looking only at the text before the first wildcard.
has_second_wildcard_before(start, end) ==
    contains(start, WILDCARD_ANY)

\* The test for a second wildcard around the first one.
has_second_wildcard(start, end) ==
    contains(start, WILDCARD_ANY) \/ contains(end, WILDCARD_ANY)

\* One turn of the loop of path_to_pattern: acc is [error, result].
path_to_pattern_step(acc, component) ==
    LET result == acc.result
    IN  IF acc.error # NoError THEN acc
        ELSE IF component.type = "Name"
        THEN LET name == component.name
             IN  IF contains(name, WILDCARD_ANY)
                 THEN LET idx == find(name, WILDCARD_ANY)
                          start == SubSeq(name, 1, idx - 1)
                          end == SubSeq(name, idx + 1, Len(name))
                      IN  IF has_second_wildcard(start, end)
                          THEN [acc EXCEPT !.error = WildcardPosition(name)]
                          ELSE [acc EXCEPT !.result =
                                   Append(result, StartsEndsWith(start, end))]
                 ELSE [acc EXCEPT !.result = Append(result, Literal(component))]
        ELSE IF component.type = "Parent"
        THEN [acc EXCEPT !.error = NoParents]
        ELSE IF component.type = "Current"
        THEN acc
        ELSE IF component.type = "DirectoryMarker"
        THEN [acc EXCEPT !.result =
                 IF result = <<>>
                 THEN <<Literal(Current), Literal(component)>>
                 ELSE Append(result, Literal(component))]
        ELSE [acc EXCEPT !.result = Append(result, Literal(component))]

RECURSIVE path_to_pattern_loop(_, _, _)
path_to_pattern_loop(components, i, acc) ==
    IF i > Len(components) THEN acc
    ELSE path_to_pattern_loop(components, i + 1,
                              path_to_pattern_step(acc, components[i]))

\* [error |-> NoError or the Err returned, result |-> the components pushed
\* so far]; result is the Ok value when error = NoError.
path_to_pattern(components) ==
    LET acc == path_to_pattern_loop(components, 1, [error |-> NoError, result |-> <<>>])
    IN  IF acc.error = NoError /\ acc.result = <<>>
        THEN [acc EXCEPT !.result = <<Literal(Current)>>]
        ELSE acc

\* -------------------------------------------------------------- match trie

\* PathMatchNode::default
PathMatchNode_default ==
    [can_end |-> FALSE, min_traversals |-> 0, max_traversals |-> USIZE_MAX]

\* A trie holding only a default root; the root's key is the empty sequence.
EmptyTree == (<<>> :> PathMatchNode_default)

\* The keys of the children of node: the entries of its literals map and of
\* its starts_ends_with map.
Children(tree, node) ==
    {k \in DOMAIN tree : Len(k) = Len(node) + 1 /\ SubSeq(k, 1, Len(node)) = node}

\* insert_component putting a fresh child under the key even when the key is
\* taken, which drops the subtree that was there.
insert_component_replacing(tree, node, component) ==
    LET child == Append(node, component)
        kept == {k \in DOMAIN tree :
                    ~(Len(k) >= Len(child) /\ SubSeq(k, 1, Len(child)) = child)}
    IN  [k \in kept \cup {child} |->
            IF k = child THEN PathMatchNode_default
            ELSE IF k = node
            THEN [tree[k] EXCEPT !.min_traversals = 0, !.max_traversals = USIZE_MAX]
            ELSE tree[k]]

\* insert_component on the node with key node; the child's key is
\* Append(node, component), created as a default node when absent.
insert_component(tree, node, component) ==
    LET child == Append(node, component)
        reset == [tree EXCEPT ![node].min_traversals = 0,
                              ![node].max_traversals = USIZE_MAX]
    IN  IF child \in DOMAIN tree THEN reset
        ELSE reset @@ (child :> PathMatchNode_default)

RECURSIVE insert_loop(_, _, _)
insert_loop(tree, pattern, i) ==
    IF i > Len(pattern) THEN tree
    ELSE insert_loop(insert_component(tree, SubSeq(pattern, 1, i - 1), pattern[i]),
                     pattern, i + 1)

\* PathMatchNode::insert on the root.
insert(tree, pattern) ==
    [insert_loop(tree, pattern, 1) EXCEPT ![pattern].can_end = TRUE]

\* usize addition as a release build does it.
wrapping_add(a, b) == (a + b) % (USIZE_MAX + 1)

cmp_min(a, b) == IF a <= b THEN a ELSE b

cmp_max(a, b) == IF a >= b THEN a ELSE b

\* The edge depth with the starts_ends_with entries left out of the count.
component_depth_literals_only(component) ==
    IF component.kind = "Literal" THEN traversal_depth(component.literal) ELSE 0

\* The depth an edge contributes: traversal_depth of a literal key, 1 for a
\* starts_ends_with key.
component_depth(component) ==
    IF component.kind = "Literal" THEN traversal_depth(component.literal) ELSE 1

RECURSIVE depth_bounds(_, _)
RECURSIVE depth_bounds_fold(_, _, _, _)
\* The loop of recompute_depth_bounds over the children still to visit.
depth_bounds_fold(tree, todo, min, max) ==
    IF todo = {} THEN <<min, max>>
    ELSE LET k == CHOOSE c \in todo : TRUE
             node_bounds == depth_bounds(tree, k)
             depth == component_depth(k[Len(k)])
         IN  depth_bounds_fold(tree, todo \ {k},
                               cmp_min(min, wrapping_add(node_bounds[1], depth)),
                               cmp_max(max, wrapping_add(node_bounds[2], depth)))

\* The pair recompute_depth_bounds returns for the node with key node.
depth_bounds(tree, node) ==
    depth_bounds_fold(tree, Children(tree, node),
                      IF tree[node].can_end THEN 0 ELSE USIZE_MAX, 0)

\* The trie after recompute_depth_bounds on the root: the call recurses into
\* every node and stores in each the pair it returns for it.
recompute_depth_bounds(tree) ==
    [k \in DOMAIN tree |->
        [tree[k] EXCEPT !.min_traversals = depth_bounds(tree, k)[1],
                        !.max_traversals = depth_bounds(tree, k)[2]]]

\* ---------------------------------------------------------------- matcher

RECURSIVE SetToSeq(_)
SetToSeq(S) ==
    IF S = {} THEN <<>>
    ELSE LET x == CHOOSE y \in S : TRUE IN <<x>> \o SetToSeq(S \ {x})

\* The wildcard test run on the text of any component, not on names only.
matching_wildcards_any_text(tree, node, component) ==
    {k \in Children(tree, node) :
        /\ k[Len(k)].kind = "StartsEndsWith"
        /\ StartsEndsWith_matches(k[Len(k)], PathComponent_fmt(component))}

\* The entries of node's starts_ends_with map whose matcher accepts component.
matching_wildcards(tree, node, component) ==
    {k \in Children(tree, node) :
        /\ k[Len(k)].kind = "StartsEndsWith"
        /\ component.type = "Name"
        /\ StartsEndsWith_matches(k[Len(k)], component.name)}

\* The marker test without the test of the length.
path_is_dir_marker_any_length(path) ==
    path # <<>> /\ path[Len(path)] = DirectoryMarker

\* Whether the remaining path is the directory marker alone.
path_is_dir_marker(path) ==
    Len(path) = 1 /\ path[Len(path)] = DirectoryMarker

\* can_match with the prefix mode forgotten.
can_match_terminal_only(tree, node, match_prefix) ==
    tree[node].can_end

\* Whether the traversal may stop at node.
can_match(tree, node, match_prefix) ==
    tree[node].can_end \/ match_prefix

\* The while loop of PathMatchNode::matches: candidates is the deque of
\* <<node key, remaining path>> pairs, its back the last element.
RECURSIVE matches_loop(_, _, _)
matches_loop(tree, candidates, match_prefix) ==
    IF candidates = <<>> THEN FALSE
    ELSE LET node == candidates[Len(candidates)][1]
             popped == SubSeq(candidates, 1, Len(candidates) - 1)
             given == candidates[Len(candidates)][2]
             path == IF match_prefix /\ given # <<>> /\ Head(given) = Current
                     THEN Tail(given) ELSE given
             may_stop == can_match(tree, node, match_prefix)
         IN  IF path_is_dir_marker(path) /\ may_stop THEN TRUE
             ELSE IF path # <<>>
             THEN LET component == Head(path)
                      literal == Append(node, Literal(component))
                      with_literal ==
                          IF literal \in DOMAIN tree
                          THEN <<<<literal, Tail(path)>>>> \o popped ELSE popped
                      wild == SetToSeq(matching_wildcards(tree, node, component))
                      pushed == [i \in 1..Len(wild) |->
                                    <<wild[Len(wild) + 1 - i], Tail(path)>>]
                  IN  matches_loop(tree, pushed \o with_literal, match_prefix)
             ELSE IF may_stop THEN TRUE
             ELSE matches_loop(tree, popped, match_prefix)

\* PathMatchNode::matches
PathMatchNode_matches(tree, path, match_prefix) ==
    matches_loop(tree, <<<<(<<>>), path>>>>, match_prefix)

\* PathMatch::matches_common: [panicked, value]; value is the boolean
\* returned when normalization did not panic.
matches_common(tree, sep, path, match_prefix) ==
    LET components == normalized(StringComponentIter(path, sep))
    IN  [panicked |-> components.panicked,
         value |-> /\ ~components.panicked
                   /\ PathMatchNode_matches(tree, components.result, match_prefix)]

\* matches calling matches_common in prefix mode.
PathMatch_matches_as_prefix(tree, sep, path) ==
    matches_common(tree, sep, path, TRUE)

\* The body of PathMatch::matches.
PathMatch_matches(tree, sep, path) ==
    matches_common(tree, sep, path, FALSE)

\* The body of PathMatch::matches_prefix.
PathMatch_matches_prefix(tree, sep, path) ==
    matches_common(tree, sep, path, TRUE)

\* add_pattern pushing whatever the compiler had collected, error or not.
add_pattern_push_always(processed_, compiled) ==
    Append(processed_, compiled.result)

\* What add_pattern leaves in processed: the ? operator returns before the
\* push when the compiler failed.
add_pattern_push(processed_, compiled) ==
    IF compiled.error = NoError
    THEN Append(processed_, compiled.result)
    ELSE processed_

\* The trie from_pattern builds from a compiled pattern.
from_pattern_tree(pattern) ==
    recompute_depth_bounds(insert(EmptyTree, pattern))

RECURSIVE build_loop(_, _, _)
build_loop(tree, processed_, i) ==
    IF i > Len(processed_) THEN tree
    ELSE build_loop(insert(tree, processed_[i]), processed_, i + 1)

\* The trie build() makes from the accumulated patterns.
build_tree(processed_) ==
    recompute_depth_bounds(build_loop(EmptyTree, processed_, 1))

\* ---------------------------------------------------------- state machine

VARIABLES
    pc,          \* "start": nothing constructed; "builder": a PathMatchBuilder
                 \* is live; "matcher": a PathMatch is live; "failed":
                 \* from_pattern returned Err
    separator,   \* PathMatchBuilder.separator, then PathMatch.separator
    processed,   \* PathMatchBuilder.processed
    match_tree,  \* PathMatch.match_tree
    inserted,    \* the compiled patterns handed to insert for match_tree
    result       \* the last call and what it returned

vars == <<pc, separator, processed, match_tree, inserted, result>>

Init ==
    /\ pc = "start"
    /\ separator = ""
    /\ processed = <<>>
    /\ match_tree = EmptyTree
    /\ inserted = <<>>
    /\ result = [op |-> "none"]

\* PathMatchBuilder::new
new(sep) ==
    /\ pc = "start"
    /\ pc' = "builder"
    /\ separator' = sep
    /\ processed' = <<>>
    /\ result' = [op |-> "new"]
    /\ UNCHANGED <<match_tree, inserted>>

\* PathMatchBuilder::add_pattern
add_pattern(pattern) ==
    /\ pc = "builder"
    /\ Len(processed) < MaxPatterns
    /\ LET compiled == path_to_pattern(StringComponentIter(pattern, UNIX_SEP))
       IN  /\ processed' = add_pattern_push(processed, compiled)
           /\ result' = [op |-> "add_pattern", pattern |-> pattern,
                         error |-> compiled.error]
    /\ UNCHANGED <<pc, separator, match_tree, inserted>>

\* PathMatchBuilder::build, which consumes the builder.
build ==
    /\ pc = "builder"
    /\ pc' = "matcher"
    /\ match_tree' = build_tree(processed)
    /\ inserted' = processed
    /\ processed' = <<>>
    /\ result' = [op |-> "build"]
    /\ UNCHANGED separator

\* PathMatch::from_pattern
from_pattern(pattern, sep) ==
    /\ pc = "start"
    /\ LET compiled == path_to_pattern(StringComponentIter(pattern, UNIX_SEP))
       IN  IF compiled.error = NoError
           THEN /\ pc' = "matcher"
                /\ separator' = sep
                /\ match_tree' = from_pattern_tree(compiled.result)
                /\ inserted' = <<compiled.result>>
                /\ result' = [op |-> "from_pattern", pattern |-> pattern,
                              error |-> NoError]
                /\ UNCHANGED processed
           ELSE /\ pc' = "failed"
                /\ result' = [op |-> "from_pattern", pattern |-> pattern,
                              error |-> compiled.error]
                /\ UNCHANGED <<separator, processed, match_tree, inserted>>

\* A PathMatch is never mutated, so a query made after other queries returns
\* what it returns when made first: each query is taken from the state that
\* build or from_pattern left.
Fresh == result.op \in {"build", "from_pattern"}

\* PathMatch::matches
matches(path) ==
    /\ pc = "matcher"
    /\ Fresh
    /\ LET r == PathMatch_matches(match_tree, separator, path)
       IN  result' = [op |-> "matches", path |-> path,
                      panicked |-> r.panicked, value |-> r.value]
    /\ UNCHANGED <<pc, separator, processed, match_tree, inserted>>

\* PathMatch::matches_prefix
matches_prefix(path) ==
    /\ pc = "matcher"
    /\ Fresh
    /\ LET r == PathMatch_matches_prefix(match_tree, separator, path)
       IN  result' = [op |-> "matches_prefix", path |-> path,
                      panicked |-> r.panicked, value |-> r.value]
    /\ UNCHANGED <<pc, separator, processed, match_tree, inserted>>

\* PathMatch::max_depth
max_depth ==
    /\ pc = "matcher"
    /\ Fresh
    /\ result' = [op |-> "max_depth", value |-> match_tree[<<>>].max_traversals]
    /\ UNCHANGED <<pc, separator, processed, match_tree, inserted>>

Next ==
    \/ \E sep \in Separators : new(sep)
    \/ \E pattern \in PatternStrings : add_pattern(pattern)
    \/ build
    \/ \E pattern \in PatternStrings, sep \in Separators : from_pattern(pattern, sep)
    \/ \E path \in PathStrings : matches(path)
    \/ \E path \in PathStrings : matches_prefix(path)
    \/ max_depth

Spec == Init /\ [][Next]_vars

\* ----------------------------------------------------------------- claims

Queried == pc = "matcher" /\ result.op \in {"matches", "matches_prefix"}

\* The slices of the queried path.
Slices == split(result.path, separator)

RECURSIVE join(_, _)
join(slices, sep) ==
    IF slices = <<>> THEN <<>>
    ELSE IF Len(slices) = 1 THEN slices[1]
    ELSE slices[1] \o <<sep>> \o join(Tail(slices), sep)

\* The strings made of the first k slices of full, k >= 1, with and without a
\* trailing separator.
Truncations(full, sep) ==
    LET slices == split(full, sep)
    IN  UNION {{join(SubSeq(slices, 1, k), sep),
                join(SubSeq(slices, 1, k), sep) \o <<sep>>} : k \in 1..Len(slices)}

AllTruncationsPrefixMatch ==
    \A q \in Truncations(result.path, separator) :
        PathMatch_matches_prefix(match_tree, separator, q).value

\* C1 as stated: whenever matches(full) is true, matches_prefix is true of
\* every truncation of full to its first k slices.
C1_Original ==
    (pc = "matcher" /\ result.op = "matches" /\ result.value)
        => AllTruncationsPrefixMatch

\* C1, amended: whenever matches(full) is true and no slice of full is "..",
\* matches_prefix is true of every truncation of full to its first k slices,
\* with or without a trailing separator.
C1_Theorem ==
    (/\ pc = "matcher" /\ result.op = "matches" /\ result.value
     /\ \A i \in 1..Len(Slices) : Slices[i] # PATH_PARENT)
        => AllTruncationsPrefixMatch

\* A two-level path without "." or ".." that a two-level pattern accepted.
C1_Witness ==
    /\ pc = "matcher" /\ result.op = "matches" /\ result.value
    /\ Len(Slices) = 2
    /\ \A i \in 1..2 : Slices[i] \notin {<<>>, PATH_CURRENT, PATH_PARENT}
    /\ \E i \in 1..Len(inserted) : Len(inserted[i]) = 2

\* What the matcher made by from_pattern from the compiled pattern alone
\* answers to the query of the current state.
SingleAnswer(pattern) ==
    matches_common(from_pattern_tree(pattern), separator, result.path,
                   result.op = "matches_prefix").value

\* C2: a matcher made from the patterns p1..pn, n >= 1, answers matches and
\* matches_prefix with true exactly when the matcher of at least one pi alone
\* does.
C2_Theorem ==
    (Queried /\ Len(inserted) >= 1)
        => (result.value <=> \E i \in 1..Len(inserted) : SingleAnswer(inserted[i]))

\* Two different two-component patterns sharing their first component, and a
\* path that only the second one accepts.
C2_Witness ==
    /\ Queried /\ result.op = "matches" /\ result.value
    /\ Len(inserted) = 2
    /\ Len(inserted[1]) = 2 /\ Len(inserted[2]) = 2
    /\ inserted[1][1] = inserted[2][1]
    /\ inserted[1][1].kind = "Literal"
    /\ ~SingleAnswer(inserted[1])
    /\ SingleAnswer(inserted[2])

\* A path component the pattern component accepts.
Instance(component) ==
    IF component.kind = "Literal" THEN component.literal
    ELSE IF component.start \o component.end = <<>> THEN Name(<<"a">>)
    ELSE Name(component.start \o component.end)

\* The normalized components of the queried path without a leading Current
\* and without the trailing DirectoryMarker.
QueriedBase ==
    LET n == normalized(StringComponentIter(result.path, separator)).result
        cut == IF n[Len(n)] = DirectoryMarker THEN SubSeq(n, 1, Len(n) - 1) ELSE n
    IN  IF cut # <<>> /\ Head(cut) = Current THEN Tail(cut) ELSE cut

QueriedRelative ==
    Head(normalized(StringComponentIter(result.path, separator)).result) = Current

\* The component sequences that start with the queried components and go on
\* as some inserted pattern does.
Continuations ==
    {QueriedBase \o [i \in 1..(Len(k) - Len(QueriedBase)) |->
                        Instance(k[Len(QueriedBase) + i])] :
        k \in {key \in DOMAIN match_tree :
                  match_tree[key].can_end /\ Len(key) >= Len(QueriedBase)}}

\* C3 as stated: when matches_prefix(path) is true, matches accepts a path
\* whose normalized components start with those of path, a leading "."
\* standing for the start of any relative path.
C3_Claim ==
    (Queried /\ result.op = "matches_prefix" /\ result.value)
        => \E full \in Continuations :
              /\ PathMatchNode_matches(match_tree, full, FALSE)
              /\ QueriedRelative => (full = <<>> \/ Head(full).type # "RootName")

\* What the compiler makes of a pattern string.
Compiled(pattern) == path_to_pattern(StringComponentIter(pattern, UNIX_SEP))

\* The pattern strings of the self-match property: no wildcard character and
\* no ".." between separators.
SelfMatchable(p) ==
    /\ ~contains(p, WILDCARD_ANY)
    /\ \A i \in 1..Len(split(p, UNIX_SEP)) : split(p, UNIX_SEP)[i] # PATH_PARENT

\* C4: a pattern string p without "*" and without a ".." component compiles,
\* and the matcher from_pattern(p, "/") makes accepts the path p.
C4_Theorem ==
    /\ (result.op = "from_pattern" /\ SelfMatchable(result.pattern))
           => /\ pc = "matcher"
              /\ result.error = NoError
              /\ separator = UNIX_SEP
                    => PathMatch_matches(match_tree, separator, result.pattern).value
    /\ (/\ pc = "matcher" /\ result.op = "matches" /\ separator = UNIX_SEP
        /\ SelfMatchable(result.path)
        /\ inserted = <<Compiled(result.path).result>>)
           => result.value

\* matches was asked for the very text of the one pattern, a text with a "."
\* component and a separator.
C4_Witness ==
    /\ pc = "matcher" /\ result.op = "matches" /\ result.value
    /\ separator = UNIX_SEP
    /\ SelfMatchable(result.path)
    /\ inserted = <<Compiled(result.path).result>>
    /\ Len(Slices) >= 2
    /\ \E i \in 1..Len(Slices) : Slices[i] = PATH_CURRENT

Wildcards(component) ==
    Cardinality({j \in 1..Len(component) : component[j] = WILDCARD_ANY})

\* The result the claim gives for a pattern string: the first slice that is
\* ".." or holds two or more wildcards decides.
ExpectedError(pattern) ==
    LET slices == split(pattern, UNIX_SEP)
        bad == {i \in 1..Len(slices) :
                   slices[i] = PATH_PARENT \/ Wildcards(slices[i]) >= 2}
        first == CHOOSE i \in bad : \A j \in bad : i <= j
    IN  IF bad = {} THEN NoError
        ELSE IF slices[first] = PATH_PARENT THEN NoParents
        ELSE WildcardPosition(slices[first])

C6_Theorem ==
    [][(pc = "builder" /\ result'.op = "add_pattern")
          => /\ separator' = separator
             /\ processed' = IF result'.error = NoError
                             THEN Append(processed, Compiled(result'.pattern).result)
                             ELSE processed]_vars

\* add_pattern failed on a builder that already holds a pattern.
C6_Witness ==
    /\ pc = "builder" /\ result.op = "add_pattern"
    /\ result.error # NoError
    /\ Len(processed) = 1

\* The number of Name, RootName and Parent components of the queried path
\* after normalization.
QueriedDepth ==
    LET n == normalized(StringComponentIter(result.path, separator)).result
    IN  Cardinality({i \in 1..Len(n) : n[i].type \in {"Name", "RootName", "Parent"}})

\* C7: a path that matches or matches_prefix accepts has at most max_depth()
\* depth-counting components after normalization.
C7_Theorem ==
    (Queried /\ result.value) => QueriedDepth <= match_tree[<<>>].max_traversals

\* An accepted path as deep as max_depth() allows, under a root.
C7_Witness ==
    /\ Queried /\ result.value
    /\ QueriedDepth = 2
    /\ match_tree[<<>>].max_traversals = 2

\* The number of literal names, root names and wildcard components of a
\* compiled pattern.
PatternDepth(pattern) ==
    Cardinality({i \in 1..Len(pattern) :
        \/ pattern[i].kind = "StartsEndsWith"
        \/ pattern[i].literal.type \in {"Name", "RootName"}})

Largest(S) == CHOOSE x \in S : \A y \in S : y <= x

\* C8: max_depth() is the largest number of depth-counting components in one
\* inserted pattern, is the same for build() and from_pattern on one pattern,
\* and is never usize::MAX.
C8_Theorem ==
    (pc = "matcher" /\ result.op = "max_depth")
        => /\ result.value # USIZE_MAX
           /\ Len(inserted) >= 1
                 => result.value =
                        Largest({PatternDepth(inserted[i]) : i \in 1..Len(inserted)})
           /\ Len(inserted) = 1
                 => result.value = from_pattern_tree(inserted[1])[<<>>].max_traversals

\* max_depth() asked of a matcher of two patterns of different depths.
C8_Witness ==
    /\ pc = "matcher" /\ result.op = "max_depth"
    /\ Len(inserted) = 2
    /\ PatternDepth(inserted[1]) = 2
    /\ PatternDepth(inserted[2]) = 0
    /\ result.value = 2

\* C9: the matcher of a builder without patterns accepts no path.
C9_Theorem ==
    (pc = "matcher" /\ result.op = "matches" /\ inserted = <<>>) => ~result.value

\* matches("") asked of the matcher of an empty builder.
C9_Witness ==
    /\ pc = "matcher" /\ result.op = "matches" /\ inserted = <<>>
    /\ result.path = <<>>
    /\ ~result.value

\* The queried path keeps a Parent after normalization.
QueriedKeepsParent ==
    LET n == normalized(StringComponentIter(result.path, separator)).result
    IN  \E i \in 1..Len(n) : n[i] = Parent

\* C10: matches is false of every path whose normalized components still
\* hold a Parent.
C10_Theorem ==
    (pc = "matcher" /\ result.op = "matches" /\ QueriedKeepsParent) => ~result.value

\* matches asked for "../a"-like paths of a matcher that starts with a
\* wildcard.
C10_Witness ==
    /\ pc = "matcher" /\ result.op = "matches" /\ QueriedKeepsParent
    /\ Len(Slices) = 2 /\ Slices[2] \notin {<<>>, PATH_CURRENT, PATH_PARENT}
    /\ \E i \in 1..Len(inserted) : inserted[i][1].kind = "StartsEndsWith"

\* str::ends_with for a one-character suffix.
EndsWithChar(s, c) == s # <<>> /\ s[Len(s)] = c

\* The valid pattern strings p not ending in "/" for which p + "/" is still
\* a pattern string of the model.
Extendable ==
    {p \in PatternStrings :
        /\ Len(p) < MaxPatternLen
        /\ ~EndsWithChar(p, UNIX_SEP)
        /\ Compiled(p).error = NoError}

\* C11: for a valid pattern p not ending in "/", the matcher of p + "/"
\* accepts a path exactly when the path ends with the separator and the
\* matcher of p accepts it.
C11_Theorem ==
    (pc = "matcher" /\ result.op = "matches" /\ Len(inserted) = 1)
        => \A p \in Extendable :
              /\ inserted[1] = Compiled(p \o <<UNIX_SEP>>).result
                    => (result.value <=>
                           /\ EndsWithChar(result.path, separator)
                           /\ PathMatch_matches(from_pattern_tree(Compiled(p).result),
                                                separator, result.path).value)
              /\ inserted[1] = Compiled(p).result
                    => ((EndsWithChar(result.path, separator) /\ result.value) <=>
                           PathMatch_matches(
                               from_pattern_tree(Compiled(p \o <<UNIX_SEP>>).result),
                               separator, result.path).value)

\* The matcher of a pattern "name/" refused the path "name", which the
\* matcher of the pattern without the "/" accepts.
C11_Witness ==
    /\ pc = "matcher" /\ result.op = "matches" /\ ~result.value
    /\ Len(inserted) = 1
    /\ \E p \in Extendable :
          /\ inserted[1] = Compiled(p \o <<UNIX_SEP>>).result
          /\ p = result.path
          /\ Compiled(p).result[1].literal.type = "Name"
          /\ PathMatch_matches(from_pattern_tree(Compiled(p).result),
                               separator, result.path).value

\* name = prefix + middle + suffix for some, possibly empty, middle.
Writable(name, prefix, suffix) ==
    \E k \in 0..(Len(name) - Len(prefix) - Len(suffix)) :
        name = prefix \o SubSeq(name, Len(prefix) + 1, Len(prefix) + k) \o suffix

\* The queried path is one ordinary name, with or without a trailing
\* separator, that can be written around the wildcard of the component.
QueriedNameFits(component) ==
    LET n == normalized(StringComponentIter(result.path, separator)).result
    IN  /\ n \in {<<n[1]>>, <<n[1], DirectoryMarker>>}
        /\ n[1].type = "Name"
        /\ Writable(n[1].name, component.start, component.end)

\* C12 as stated: the matcher of a single wildcard component prefix*suffix
\* accepts a path exactly when the path is one ordinary name of the form
\* prefix + middle + suffix.
C12_Claim ==
    (/\ pc = "matcher" /\ result.op = "matches"
     /\ Len(inserted) = 1 /\ Len(inserted[1]) = 1
     /\ inserted[1][1].kind = "StartsEndsWith")
        => (result.value <=> QueriedNameFits(inserted[1][1]))

\* C13 as stated: the empty path normalizes to [Current], and matches("")
\* and matches_prefix("") return what the same call returns for ".".
C13_Claim ==
    (Queried /\ result.path = <<>>)
        => /\ normalized(StringComponentIter(result.path, separator)).result
                 = <<Current>>
           /\ result.value =
                 matches_common(match_tree, separator, PATH_CURRENT,
                                result.op = "matches_prefix").value

\* The components the tokenizer yields for the queried path.
QueriedTokens == StringComponentIter(result.path, separator)

\* DirectoryMarker occurs at most once in a sequence, and only as its last item.
MarkerOnlyLast(components) ==
    \A i \in 1..Len(components) :
        components[i] = DirectoryMarker => i = Len(components)

\* A Current is kept only directly before the final marker or as the sole
\* fallback component.
CurrentOnlyBeforeMarker(components) ==
    \A i \in 1..Len(components) :
        components[i] = Current =>
            \/ components = <<Current>>
            \/ components = <<Current, DirectoryMarker>> /\ i = 1

\* C14: matches and matches_prefix never fail: every call returns a boolean
\* without reaching the panic arm of normalized, since the tokenizer yields
\* DirectoryMarker at most once and only last, and normalized keeps a Current
\* only directly before that marker or as the final fallback.
C14_Theorem ==
    Queried =>
        /\ ~result.panicked
        /\ result.value \in BOOLEAN
        /\ MarkerOnlyLast(QueriedTokens)
        /\ ~normalized(QueriedTokens).panicked
        /\ CurrentOnlyBeforeMarker(normalized(QueriedTokens).result)

C14_Witness ==
    /\ Queried /\ ~result.panicked
    /\ \E i \in 1..(Len(QueriedTokens) - 1) :
          QueriedTokens[i] = Current /\ QueriedTokens[i + 1] = Parent

====
